---------------------------- MODULE Spec2Model ----------------------------
(***************************************************************************)
(* Unit 2 active power prediction: the Streamlit scripts stream1.py and    *)
(* stream11.py.  A script run (one top-to-bottom execution of the script,  *)
(* triggered by a widget interaction of a browser session) loads the ONNX  *)
(* session, on submit predicts, clips, displays and appends a row to       *)
(* unit2_log.csv, then renders the log viewer and the clear button.        *)
(*                                                                         *)
(* Numbers with a fractional part (Python floats) are held as fixed-point  *)
(* integers in thousandths; slider integers are held as they are.          *)
(***************************************************************************)
EXTENDS Integers, Sequences, FiniteSets, TLC

\* ------------------------------------------------------------------ bounds
MaxAppends  == 2      \* submits that reach the log append, per behaviour
MaxTime     == 1      \* seconds the wall clock advances over a behaviour
MaxLoads    == 3      \* InferenceSession constructions that are counted
RawMargin   == 1      \* MW below 140 and above 290 that the clamp check covers

Scale == 10 * 100     \* fixed-point: thousandths, one digit below the two displayed

\* The browser sessions that may be connected to the one server process.
Sessions == { "s1", "s2" }
Apps     == {"stream1", "stream11"}

\* ------------------------------------------------------------------ values
\* A Python value of a row: ty is "str", "int" or "float"; n the number (int:
\* as is, float: thousandths), s the text of a str.
StrV(t)   == [ty |-> "str",   n |-> 0, s |-> t]
IntV(k)   == [ty |-> "int",   n |-> k, s |-> << >>]
FloatV(h) == [ty |-> "float", n |-> h, s |-> << >>]

\* The number a value stands for, in thousandths (290 == 290.0).
Num(v) == IF v.ty = "int" THEN v.n * Scale ELSE v.n

SameValue(a, b) ==
    IF a.ty = "str" \/ b.ty = "str"
    THEN a.ty = b.ty /\ a.s = b.s
    ELSE Num(a) = Num(b)

\* ------------------------------------------------------------------ clamp
LowMW  == 140
HighMW == 290

Min2(a, b) == IF Num(b) < Num(a) THEN b ELSE a   \* Python min(a, b)
Max2(a, b) == IF Num(b) > Num(a) THEN b ELSE a   \* Python max(a, b)

\* Variants of the clip with a slip in them: the upper bound left out; min and
\* max exchanged.
Clip11NoUpper(predicted) == Max2(predicted, FloatV(LowMW * Scale))
Clip1Exchanged(predicted) == Min2(Max2(predicted, IntV(HighMW)), IntV(LowMW))

\* stream11.py: max(min(predicted_mw, 290.0), 140.0)
Clip11(predicted) == Max2(Min2(predicted, FloatV(HighMW * Scale)), FloatV(LowMW * Scale))
\* stream1.py: max(min(predicted_mw, 290), 140), the bounds are Python ints
Clip1(predicted)  == Max2(Min2(predicted, IntV(HighMW)), IntV(LowMW))

Clip(a, predicted) == IF a = "stream11" THEN Clip11(predicted) ELSE Clip1(predicted)

\* f"{clipped_result:.2f}": the number rounded to two decimals, in hundredths
Display2f(v) == (Num(v) + 5) \div 10

\* ------------------------------------------------------------------ CSV text
\* A cell of the CSV file is its text: a sequence of characters (a str value
\* is written as it is, its text being a sequence of strings already).
DigitChar == << "0", "1", "2", "3", "4", "5", "6", "7", "8", "9" >>
Digits    == { DigitChar[i] : i \in 1..10 }
CharVal(c) == (CHOOSE i \in 1..10 : DigitChar[i] = c) - 1

RECURSIVE NatText(_)
NatText(k) == IF k < 10 THEN << DigitChar[k + 1] >>
              ELSE Append(NatText(k \div 10), DigitChar[(k % 10) + 1])

Abs(k) == IF k < 0 THEN -k ELSE k
SignText(k) == IF k < 0 THEN << "-" >> ELSE << >>

\* str(int)
IntText(k) == SignText(k) \o NatText(Abs(k))

\* repr(float): at least one fractional digit, no trailing zeros
FracText(f) ==
    IF f % 100 = 0 THEN << DigitChar[(f \div 100) + 1] >>
    ELSE IF f % 10 = 0
         THEN << DigitChar[(f \div 100) + 1], DigitChar[((f \div 10) % 10) + 1] >>
         ELSE << DigitChar[(f \div 100) + 1], DigitChar[((f \div 10) % 10) + 1],
                 DigitChar[(f % 10) + 1] >>
FloatText(h) ==
    SignText(h) \o NatText(Abs(h) \div Scale) \o << "." >> \o FracText(Abs(h) % Scale)

\* csv.writer.writerow / DataFrame.to_csv of one value
CellText(v) ==
    CASE v.ty = "str"   -> v.s
      [] v.ty = "int"   -> IntText(v.n)
      [] v.ty = "float" -> FloatText(v.n)

FormatRow(r) == [j \in 1..Len(r) |-> CellText(r[j])]

\* ----- pandas.read_csv: the text of a cell back to a value
Unsigned(t) == IF t # << >> /\ t[1] = "-" THEN Tail(t) ELSE t
IsNatText(t) == t # << >> /\ \A i \in 1..Len(t) : t[i] \in Digits
IsIntText(t) == IsNatText(Unsigned(t))
DotAt(t) == { i \in 1..Len(t) : t[i] = "." }
IsFloatText(t) ==
    LET u == Unsigned(t) IN
    /\ Cardinality(DotAt(u)) = 1
    /\ LET p == CHOOSE i \in DotAt(u) : TRUE IN
       /\ IsNatText(SubSeq(u, 1, p - 1))
       /\ IsNatText(SubSeq(u, p + 1, Len(u)))
       /\ Len(u) - p <= 3

RECURSIVE ParseNat(_)
ParseNat(t) == IF t = << >> THEN 0
               ELSE 10 * ParseNat(SubSeq(t, 1, Len(t) - 1)) + CharVal(t[Len(t)])

Pow10(k) == CASE k = 0 -> 1 [] k = 1 -> 10 [] k = 2 -> 100 [] OTHER -> 1000
Signed(t, k) == IF t # << >> /\ t[1] = "-" THEN -k ELSE k
ParseInt(t) == Signed(t, ParseNat(Unsigned(t)))
ParseFloat(t) ==
    LET u == Unsigned(t)
        p == CHOOSE i \in DotAt(u) : TRUE
        fr == SubSeq(u, p + 1, Len(u))
    IN Signed(t, ParseNat(SubSeq(u, 1, p - 1)) * Scale + ParseNat(fr) * Pow10(3 - Len(fr)))

\* The dtype pandas infers for a column from the texts of its cells.
ColumnType(cells) ==
    IF \A i \in 1..Len(cells) : IsIntText(cells[i]) THEN "int"
    ELSE IF \A i \in 1..Len(cells) : IsIntText(cells[i]) \/ IsFloatText(cells[i])
         THEN "float"
         ELSE "str"

ParseCell(ty, t) ==
    CASE ty = "int"   -> IntV(ParseInt(t))
      [] ty = "float" -> IF IsIntText(t) THEN FloatV(ParseInt(t) * Scale)
                         ELSE FloatV(ParseFloat(t))
      [] ty = "str"   -> StrV(t)

\* pandas.read_csv of the whole file: the first row names the columns, every
\* other row is a record, each column parsed with the dtype inferred for it.
\* A file without any row raises EmptyDataError.
CanParse(rs) == rs # << >>
ReadCsv(rs) ==
    LET n == Len(rs) - 1
        col(j) == [i \in 1..n |-> rs[i + 1][j]]
    IN [kind    |-> "table",
        columns |-> rs[1],
        records |-> [i \in 1..n |->
                       [j \in 1..Len(rs[i + 1]) |-> ParseCell(ColumnType(col(j)), rs[i + 1][j])]]]

NoView   == [kind |-> "none",   columns |-> << >>, records |-> << >>]
Absent   == [kind |-> "absent", columns |-> << >>, records |-> << >>]  \* None / st.info
Unset    == [kind |-> "unset",  columns |-> << >>, records |-> << >>]  \* no cache entry

\* ------------------------------------------------------------------ inputs
HeaderRow == << << "Time" >>, << "Steam Flow" >>, << "HRH P" >>, << "HRH T" >>,
                << "Main Steam P" >>, << "HP Temp" >>, << "Ambient" >>, << "Predicted MW" >> >>

\* The slider defaults, and the lower ends of the six slider ranges.
DefaultInput == << FloatV(850000), FloatV(4000), IntV(525), FloatV(16000), IntV(538), FloatV(25000) >>
LowInput     == << FloatV(180000), FloatV(1200), IntV(390), FloatV(7000),  IntV(390), FloatV(-4000) >>
InputVectors == { DefaultInput, LowInput }

\* What session.run may return: inside and above the clip range.
RawOutputs == { 215375, 310 * Scale }

\* datetime.now().strftime("%Y-%m-%d %H:%M:%S") at second t of the clock
TimeText(t) == << "2025-08-20 12:00:", DigitChar[(t \div 10) + 1], DigitChar[(t % 10) + 1] >>

\* row / log: Time, the six inputs, the clipped result
LogRow(t, v, mw) == << StrV(TimeText(t)) >> \o v \o << mw >>

\* ------------------------------------------------------------------ state
VARIABLES
    app,            \* which script the server runs
    users,          \* the connected browser sessions
    now,            \* wall clock at its last reading, seconds
    fileExists,     \* os.path.exists("unit2_log.csv")
    rows,           \* the rows of unit2_log.csv, each a sequence of cell texts
    sessionCache,   \* st.cache_resource entry of get_session: 0 none, else the handle
    loads,          \* InferenceSession objects constructed so far (counted to MaxLoads)
    logCache,       \* st.cache_data entry of load_log("unit2_log.csv")
    pc,             \* per session: position of its script run
    x,              \* per session: the six slider values its run reads
    show_log,       \* per session: checkbox
    submitted,      \* per session: predict button of this run
    clearClicked,   \* per session: clear button of this run
    session,        \* per session: handle used by this run
    predicted_mw,   \* per session: raw model output
    clipped_result, \* per session
    row,            \* per session: the record to append
    file_exists,    \* per session: result of the existence check before the append
    unlinked,       \* per session: its open log file was removed under it
    shown,          \* per session: displayed result, hundredths (-1: none)
    warning,        \* per session: st.warning shown by this run
    raised,         \* per session: uncaught exception that ended the run
    view,           \* per session: what the log viewer rendered
    appended,       \* history: records appended since the file was created
    cleared,        \* history: a clear ran and nothing was appended since
    submits         \* history: submits so far

shared == << app, users, now, fileExists, rows, sessionCache, loads, logCache >>
widgets == << show_log >>
locals == << x, submitted, clearClicked, session, predicted_mw, clipped_result, row,
             file_exists, unlinked >>
output == << shown, warning, raised, view >>
history == << appended, cleared, submits >>
vars == << shared, pc, widgets, locals, output, history >>

NoValue == IntV(0)
NoRow   == << >>

\* The server has started, no script has run, there is no log file.
Started ==
    /\ app \in Apps
    /\ now = 0
    /\ fileExists = FALSE
    /\ rows = << >>
    /\ sessionCache = 0
    /\ loads = 0
    /\ logCache = Unset
    /\ pc = [s \in Sessions |-> "idle"]
    /\ x = [s \in Sessions |-> DefaultInput]
    /\ show_log = [s \in Sessions |-> FALSE]
    /\ submitted = [s \in Sessions |-> FALSE]
    /\ clearClicked = [s \in Sessions |-> FALSE]
    /\ session = [s \in Sessions |-> 0]
    /\ predicted_mw = [s \in Sessions |-> NoValue]
    /\ clipped_result = [s \in Sessions |-> NoValue]
    /\ row = [s \in Sessions |-> NoRow]
    /\ file_exists = [s \in Sessions |-> FALSE]
    /\ unlinked = [s \in Sessions |-> FALSE]
    /\ shown = [s \in Sessions |-> -1]
    /\ warning = [s \in Sessions |-> FALSE]
    /\ raised = [s \in Sessions |-> "none"]
    /\ view = [s \in Sessions |-> NoView]
    /\ appended = << >>
    /\ cleared = FALSE
    /\ submits = 0

\* One browser session: the deployment the scripts are written for.
Init == Started /\ users = { "s1" }

\* One or two browser sessions on the same server and log file.
InitShared == Started /\ users \in { { "s1" }, Sessions }

\* A submit of one session at the point where session.run has returned, for
\* every raw output within RawMargin MW of either end of the clip range, and
\* for the outputs 50, 215.375 and 310 MW.
ClipInputs ==
    ((LowMW - RawMargin) * Scale .. (LowMW + RawMargin) * Scale)
    \cup ((HighMW - RawMargin) * Scale .. (HighMW + RawMargin) * Scale)
    \cup { 50 * Scale, 215375, 310 * Scale }

InitClip ==
    /\ app \in Apps
    /\ users = { "s1" }
    /\ now = 0
    /\ fileExists = FALSE
    /\ rows = << >>
    /\ loads = 1
    /\ sessionCache = IF app = "stream11" THEN 1 ELSE 0
    /\ logCache = Unset
    /\ pc = [s \in Sessions |-> IF s = "s1" THEN "clip" ELSE "idle"]
    /\ x \in [Sessions -> InputVectors] /\ x["s2"] = DefaultInput
    /\ show_log = [s \in Sessions |-> FALSE]
    /\ submitted = [s \in Sessions |-> s = "s1"]
    /\ clearClicked = [s \in Sessions |-> FALSE]
    /\ session = [s \in Sessions |-> IF s = "s1" THEN 1 ELSE 0]
    /\ \E raw \in ClipInputs :
          predicted_mw = [s \in Sessions |-> IF s = "s1" THEN FloatV(raw) ELSE NoValue]
    /\ clipped_result = [s \in Sessions |-> NoValue]
    /\ row = [s \in Sessions |-> NoRow]
    /\ file_exists = [s \in Sessions |-> FALSE]
    /\ unlinked = [s \in Sessions |-> FALSE]
    /\ shown = [s \in Sessions |-> -1]
    /\ warning = [s \in Sessions |-> FALSE]
    /\ raised = [s \in Sessions |-> "none"]
    /\ view = [s \in Sessions |-> NoView]
    /\ appended = << >>
    /\ cleared = FALSE
    /\ submits = MaxAppends

\* ------------------------------------------------------------------ helpers
Set(f, s, v) == [f EXCEPT ![s] = v]
Counted(k) == IF k < MaxLoads THEN k + 1 ELSE k

\* stream11.py get_session under st.cache_resource: one InferenceSession per
\* path for the life of the process, built on the first call.
get_session(s) ==
    IF sessionCache = 0
    THEN /\ loads' = Counted(loads)
         /\ sessionCache' = loads'
         /\ session' = Set(session, s, loads')
    ELSE /\ UNCHANGED << loads, sessionCache >>
         /\ session' = Set(session, s, sessionCache)

\* stream1.py: the module-level InferenceSession(...) runs in every script run.
LoadSession(s) ==
    /\ loads' = Counted(loads)
    /\ session' = Set(session, s, loads')
    /\ UNCHANGED sessionCache

\* The top of a script run: the widgets deliver the slider values v and the
\* buttons (sub, clr); the model session is obtained.  The sliders keep their
\* values between runs, and any value can be set before a run uses them, so
\* the values are held by the runs that use them or were started by a move.
StartRun(s, v, sub, clr) ==
    /\ pc[s] = "idle"
    /\ x' = Set(x, s, v)
    /\ submitted' = Set(submitted, s, sub)
    /\ clearClicked' = Set(clearClicked, s, clr)
    /\ IF app = "stream11" THEN get_session(s) ELSE LoadSession(s)
    /\ raised' = Set(raised, s, "none")
    /\ pc' = Set(pc, s, IF sub THEN "predict" ELSE "viewer")
    /\ UNCHANGED << app, users, now, fileExists, rows, logCache, predicted_mw,
                    clipped_result, row, file_exists, unlinked, shown, warning, view,
                    appended, cleared >>

\* The end of a script run, by reaching the bottom of the script or by an
\* uncaught exception: the run's variables are gone.  (The page keeps what the
\* run rendered until the next run; the model keeps only the exception.)
EndRun(s) ==
    /\ pc' = Set(pc, s, "idle")
    /\ x' = Set(x, s, DefaultInput)
    /\ submitted' = Set(submitted, s, FALSE)
    /\ clearClicked' = Set(clearClicked, s, FALSE)
    /\ session' = Set(session, s, 0)
    /\ predicted_mw' = Set(predicted_mw, s, NoValue)
    /\ clipped_result' = Set(clipped_result, s, NoValue)
    /\ row' = Set(row, s, NoRow)
    /\ file_exists' = Set(file_exists, s, FALSE)
    /\ shown' = Set(shown, s, -1)
    /\ warning' = Set(warning, s, FALSE)
    /\ view' = Set(view, s, NoView)

\* ------------------------------------------------------------------ user actions
\* stream11: st.form_submit_button delivers the form's slider values with the
\* submit.  stream1: st.button(l["predict"]) with the sliders as they stand.
Submit(s, v) ==
    /\ submits < MaxAppends
    /\ submits' = submits + 1
    /\ StartRun(s, v, TRUE, FALSE)
    /\ UNCHANGED show_log

\* stream1: a slider outside a form reruns the script on every move.
MoveSlider(s, v) ==
    /\ app = "stream1"
    /\ StartRun(s, v, FALSE, FALSE)
    /\ UNCHANGED << show_log, submits >>

\* st.selectbox: the choice only selects the label table, which is not part
\* of the state; the script reruns with no button set.
ChangeLanguage(s) ==
    /\ StartRun(s, DefaultInput, FALSE, FALSE)
    /\ UNCHANGED << show_log, submits >>

ToggleLog(s) ==
    /\ show_log' = Set(show_log, s, ~show_log[s])
    /\ StartRun(s, DefaultInput, FALSE, FALSE)
    /\ UNCHANGED submits

ClickClear(s) ==
    /\ StartRun(s, DefaultInput, FALSE, TRUE)
    /\ UNCHANGED << show_log, submits >>

\* ------------------------------------------------------------------ prediction
\* y = session.run(...); predicted_mw
Predict(s) ==
    /\ pc[s] = "predict"
    /\ \E raw \in RawOutputs : predicted_mw' = Set(predicted_mw, s, FloatV(raw))
    /\ pc' = Set(pc, s, "clip")
    /\ UNCHANGED << shared, widgets, x, submitted, clearClicked, session, clipped_result,
                    row, file_exists, unlinked, output, history >>

\* clipped_result, the st.markdown of the result, the row, the existence check
\* datetime.now() is the one place the clock is read: it has not gone back
\* since the last reading.
ClipAndShow(s) ==
    /\ pc[s] = "clip"
    /\ clipped_result' = Set(clipped_result, s, Clip(app, predicted_mw[s]))
    /\ shown' = Set(shown, s, Display2f(clipped_result'[s]))
    /\ now' \in now..MaxTime
    /\ row' = Set(row, s, LogRow(now', x[s], clipped_result'[s]))
    /\ file_exists' = Set(file_exists, s, fileExists)
    /\ pc' = Set(pc, s, "open")
    /\ UNCHANGED << app, users, fileExists, rows, sessionCache, loads, logCache, widgets,
                    x, submitted, clearClicked, session, predicted_mw,
                    unlinked, warning, raised, view, history >>

\* ------------------------------------------------------------------ log append
\* Variants with a slip: a header with every append; a write that replaces
\* the last row of the file.
HeaderEveryTime(existed) == TRUE
WriteOverLast(rs, new) == (IF rs = << >> THEN rs ELSE SubSeq(rs, 1, Len(rs) - 1)) \o new

\* The header goes first when the existence check found no file.
NeedsHeader(existed) == ~existed

\* mode "a": the write lands at the end of the file
WriteAtEnd(rs, new) == rs \o new
\* mode "w": the write lands at the handle's offset, the start of the file
WriteAtStart(rs, new) ==
    new \o (IF Len(rs) > Len(new) THEN SubSeq(rs, Len(new) + 1, Len(rs)) ELSE << >>)

\* stream11: open(..., "a"); stream1: to_csv(mode='a') when the file was seen,
\* to_csv() (mode "w", truncating) when it was not.
OpenMode(a, existed) == IF a = "stream11" \/ existed THEN "a" ELSE "w"

\* open() succeeded: the file exists from here on, empty if new or truncated
OpenLogOk(s) ==
    /\ pc[s] = "open"
    /\ fileExists' = TRUE
    /\ rows' = IF OpenMode(app, file_exists[s]) = "w" THEN << >> ELSE rows
    /\ appended' = IF rows' = << >> THEN << >> ELSE appended
    /\ unlinked' = Set(unlinked, s, FALSE)
    /\ pc' = Set(pc, s, "write")
    /\ UNCHANGED << app, users, now, sessionCache, loads, logCache, widgets, x, submitted,
                    clearClicked, session, predicted_mw, clipped_result, row, file_exists,
                    output, cleared, submits >>

\* open() raised (PermissionError, ...): stream11 catches it and warns, the run
\* goes on; stream1 has no handler, the exception ends the run.
OpenLogFails(s) ==
    /\ pc[s] = "open"
    /\ IF app = "stream11"
       THEN /\ warning' = Set(warning, s, TRUE)
            /\ pc' = Set(pc, s, "viewer")
            /\ UNCHANGED << x, submitted, clearClicked, session, predicted_mw,
                            clipped_result, row, file_exists, shown, view, raised >>
       ELSE /\ raised' = Set(raised, s, "write")
            /\ EndRun(s)
    /\ UNCHANGED << shared, widgets, unlinked, history >>

\* The header (if due) and the row reach the file when it is closed.
WriteLog(s) ==
    /\ pc[s] = "write"
    /\ LET new == (IF NeedsHeader(file_exists[s]) THEN << HeaderRow >> ELSE << >>)
                  \o << FormatRow(row[s]) >>
       IN rows' = IF unlinked[s] THEN rows
                  ELSE IF OpenMode(app, file_exists[s]) = "a" THEN WriteAtEnd(rows, new)
                  ELSE WriteAtStart(rows, new)
    /\ appended' = IF unlinked[s] THEN appended ELSE Append(appended, row[s])
    /\ cleared' = IF unlinked[s] THEN cleared ELSE FALSE
    /\ pc' = Set(pc, s, "viewer")
    /\ UNCHANGED << app, users, now, fileExists, sessionCache, loads, logCache, widgets,
                    locals, output, submits >>

\* ------------------------------------------------------------------ log viewer
\* stream11 load_log, the body that runs on a cache miss
load_log_body == IF ~fileExists THEN Absent
                 ELSE IF CanParse(rows) THEN ReadCsv(rows) ELSE Absent

\* stream11: load_log under st.cache_data, keyed by the path alone
ViewLog11(s) ==
    /\ app = "stream11"
    /\ pc[s] = "viewer"
    /\ IF show_log[s]
       THEN /\ logCache' = IF logCache = Unset THEN load_log_body ELSE logCache
            /\ view' = Set(view, s, logCache')
       ELSE UNCHANGED << logCache, view >>
    /\ pc' = Set(pc, s, "clear")
    /\ UNCHANGED << app, users, now, fileExists, rows, sessionCache, loads, widgets,
                    locals, shown, warning, raised, history >>

\* stream1: os.path.exists, then pd.read_csv with no handler around it
ViewLog1(s) ==
    /\ app = "stream1"
    /\ pc[s] = "viewer"
    /\ IF show_log[s] /\ fileExists /\ ~CanParse(rows)
       THEN /\ raised' = Set(raised, s, "read")
            /\ EndRun(s)
       ELSE /\ view' = Set(view, s, IF ~show_log[s] THEN NoView
                                     ELSE IF fileExists THEN ReadCsv(rows) ELSE Absent)
            /\ pc' = Set(pc, s, "clear")
            /\ UNCHANGED << x, submitted, clearClicked, session, predicted_mw,
                            clipped_result, row, file_exists, shown, warning, raised >>
    /\ UNCHANGED << shared, widgets, unlinked, history >>

\* ------------------------------------------------------------------ clear log
\* if st.button(clear): if os.path.exists: os.remove.  A session that holds the
\* file open keeps writing to the removed file.
ClearLog(s) ==
    /\ pc[s] = "clear"
    /\ IF clearClicked[s] /\ fileExists
       THEN /\ fileExists' = FALSE
            /\ rows' = << >>
            /\ appended' = << >>
            /\ unlinked' = [t \in Sessions |-> pc[t] = "write"]
       ELSE UNCHANGED << fileExists, rows, appended, unlinked >>
    /\ cleared' = IF clearClicked[s] THEN TRUE ELSE cleared
    /\ EndRun(s)
    /\ UNCHANGED << app, users, now, sessionCache, loads, logCache, widgets, raised,
                    submits >>

Next ==
    \/ \E s \in users : \E v \in InputVectors : Submit(s, v)
    \/ \E s \in users : \E v \in InputVectors : MoveSlider(s, v)
    \/ \E s \in users : ChangeLanguage(s)
    \/ \E s \in users : ToggleLog(s)
    \/ \E s \in users : ClickClear(s)
    \/ \E s \in users : Predict(s)
    \/ \E s \in users : ClipAndShow(s)
    \/ \E s \in users : OpenLogOk(s)
    \/ \E s \in users : OpenLogFails(s)
    \/ \E s \in users : WriteLog(s)
    \/ \E s \in users : ViewLog11(s)
    \/ \E s \in users : ViewLog1(s)
    \/ \E s \in users : ClearLog(s)

Spec == Init /\ [][Next]_vars

SpecShared == InitShared /\ [][Next]_vars

\* The prediction block of one run, from the clip to the end of the append.
NextClip ==
    \/ \E s \in users : ClipAndShow(s)
    \/ \E s \in users : OpenLogOk(s)
    \/ \E s \in users : OpenLogFails(s)
    \/ \E s \in users : WriteLog(s)

SpecClip == InitClip /\ [][NextClip]_vars

\* ------------------------------------------------------------------ properties
InRange(h) == LowMW * Scale <= h /\ h <= HighMW * Scale
IsNumberText(t) == IsIntText(t) \/ IsFloatText(t)
TextNumber(t) == IF IsIntText(t) THEN ParseInt(t) * Scale ELSE ParseFloat(t)
DataRows(rs) == SelectSeq(rs, LAMBDA r : r # HeaderRow)
HeaderAt(rs) == { i \in 1..Len(rs) : rs[i] = HeaderRow }
IsDataRow(r) == /\ Len(r) = Len(HeaderRow)
                /\ r # HeaderRow
                /\ \A j \in 2..Len(r) : IsNumberText(r[j])
IsPrefix(a, b) == Len(a) <= Len(b) /\ SubSeq(b, 1, Len(a)) = a
Appending(s) == pc[s] = "write"

\* C1: whatever the raw model output and the inputs, the value a submit
\* displays (two decimals) and the Predicted MW it puts in its row and in the
\* log file lie in [140, 290].
T_C1 ==
    /\ \A s \in users :
         /\ shown[s] # -1 => (LowMW * 100 <= shown[s] /\ shown[s] <= HighMW * 100)
         /\ row[s] # NoRow => InRange(Num(row[s][8]))
    /\ \A i \in 1..Len(rows) :
         rows[i] # HeaderRow => IsNumberText(rows[i][8]) /\ InRange(TextNumber(rows[i][8]))

\* A submit whose raw output was above the range has shown 290.00 and its row
\* is in the log file.
W_C1 ==
    \E s \in users :
        /\ Num(predicted_mw[s]) > HighMW * Scale
        /\ shown[s] = HighMW * 100
        /\ pc[s] = "viewer"
        /\ Len(rows) = 2
        /\ TextNumber(rows[2][8]) = HighMW * Scale

\* The reference clamp to [140, 290].
RefClamp(h) == IF h < LowMW * Scale THEN LowMW * Scale
               ELSE IF h > HighMW * Scale THEN HighMW * Scale
               ELSE h
Clipped(s) == pc[s] \in { "open", "write", "viewer" }

\* C2: the clip of the code is the reference clamp: a raw output in [140, 290]
\* comes back unchanged, one below 140 gives exactly 140, one above 290 exactly
\* 290; and clipping the clipped value again changes nothing.
T_C2 ==
    \A s \in users :
        Clipped(s) =>
            /\ Num(clipped_result[s]) = RefClamp(Num(predicted_mw[s]))
            /\ Num(Clip(app, clipped_result[s])) = Num(clipped_result[s])

\* 310 has been clipped to exactly 290.
W_C2 ==
    \E s \in users :
        /\ Clipped(s)
        /\ Num(predicted_mw[s]) = 310 * Scale
        /\ Num(clipped_result[s]) = 290 * Scale

\* Field by field, in order: what the viewer shows is what was appended.
RecordsMatch(recs, written) ==
    /\ Len(recs) = Len(written)
    /\ \A i \in 1..Len(recs) :
         /\ Len(recs[i]) = Len(written[i])
         /\ \A j \in 1..Len(recs[i]) : SameValue(recs[i][j], written[i][j])
JustRead(s) == pc[s] = "clear" /\ show_log[s]

\* C3: logger round trip.  After N >= 1 appends to a log that started absent,
\* a read through the viewer shows a table with the 8 column names and exactly
\* the N appended records, field by field and in append order, whatever reads
\* the viewer did earlier.  (One session.)
CE_C3 ==
    \A s \in users :
        (users = { s } /\ JustRead(s) /\ fileExists /\ appended # << >>) =>
            /\ view[s].kind = "table"
            /\ view[s].columns = HeaderRow
            /\ RecordsMatch(view[s].records, appended)

\* C4: once a clear has run, a read through the viewer returns absent until
\* the next append, whatever was read or appended before the clear.  (One
\* session.)
CE_C4 ==
    \A s \in users :
        (users = { s } /\ JustRead(s) /\ cleared) => view[s] = Absent

CE_C6 ==
    /\ loads <= 1
    /\ \A s \in users : session[s] <= 1

\* C7: a failed append is reported as a warning, the result stays shown and
\* the run goes on to the log viewer and the clear section; no run is ended
\* by the failure.
CE_C7 ==
    \A s \in users :
        /\ raised[s] # "write"
        /\ warning[s] => (shown[s] # -1 /\ pc[s] \in { "viewer", "clear" })

\* C8: the read of the log never raises; it returns absent when the file does
\* not exist and when the file exists but cannot be parsed.
CE_C8 ==
    [][ \A s \in users :
          (pc[s] = "viewer" /\ pc'[s] # "viewer" /\ show_log[s]) =>
              /\ raised'[s] = "none"
              /\ (~fileExists \/ ~CanParse(rows)) => view'[s] = Absent ]_vars

\* C9: the log is append-only.  In every step of one session the file stays as
\* it is, or (in a run that submitted) is created empty by the append's open
\* or gains the run's record at its end, the rows before it untouched, or (in
\* a run that clicked clear) is deleted as a whole; a run with neither button
\* leaves it unchanged.
T_C9 ==
    [][ \/ (rows' = rows /\ fileExists' = fileExists)
        \/ \E s \in users :
             /\ submitted[s] /\ pc[s] = "open"
             /\ ~fileExists /\ fileExists' /\ rows = << >> /\ rows' = << >>
        \/ \E s \in users :
             /\ submitted[s] /\ pc[s] = "write"
             /\ fileExists /\ fileExists'
             /\ IsPrefix(rows, rows')
             /\ DataRows(rows') = Append(DataRows(rows), FormatRow(row[s]))
        \/ \E s \in users :
             /\ clearClicked[s] /\ pc[s] = "clear"
             /\ fileExists /\ ~fileExists' /\ rows' = << >> ]_vars

\* A run with no button set is at the viewer with both records in the file.
W_C9 ==
    \E s \in users :
        /\ pc[s] = "viewer" /\ ~submitted[s] /\ ~clearClicked[s]
        /\ Len(rows) = 3 /\ Len(DataRows(rows)) = 2

\* C10: appends of two sessions are not coordinated (the witness: both saw no
\* file and the file has a second header among its rows); with one session
\* the file never holds a header row anywhere but in its first row.
T_C10 == users = { "s1" } => HeaderAt(rows) \subseteq { 1 }

\* Both sessions found no file, both appended: a header row in row 3.
W_C10 ==
    /\ users = Sessions
    /\ \A s \in users : submitted[s] /\ pc[s] = "viewer" /\ ~file_exists[s]
    /\ Len(rows) = 4
    /\ HeaderAt(rows) = { 1, 3 }

=============================================================================
